---------------------------- MODULE Spec2Model ----------------------------
(* A model of src/src/main.rs: the conversation REPL (request_loop), one   *)
(* streamed turn (request_single_message) and the producer thread running  *)
(* the curl transfer with its write callback (individual_request_ch).      *)
(*                                                                         *)
(* Strings are sequences of one-character strings, so that trim(),         *)
(* starts_with(), ends_with() and slicing are computed, not assumed.       *)
(* A response chunk is a record abstracting its bytes: whether they are    *)
(* valid UTF-8, which JSON object keys the text carries, and the values of *)
(* message.content, done and error.                                        *)
EXTENDS Naturals, Sequences, FiniteSets

VARIABLES
    messages,      \* req.messages, the transcript (main.rs:323-328)
    pc,            \* where the foreground thread is
    prompt,        \* the local `prompt` of request_loop (main.rs:332)
    full_message,  \* the accumulator of request_single_message (main.rs:285)
    chan,          \* deltas sent and not yet received (main.rs:284)
    receiver,      \* TRUE while the Receiver of this turn's channel exists
    producer,      \* the spawned thread: "none", "running", "finished", "panicked"
    perform,       \* result of transfer.perform(): "none", "Ok", "Err"
    buf,           \* chunks the write callback has stored (main.rs:170, 210)
    sent,          \* history: every ChannelMessage sent in this turn
    recvd,         \* history: every ChannelMessage received in this turn
    stdout,        \* what was printed since the last input prompt
    stderr,        \* what was printed to stderr since the last input prompt
    lastCmd,       \* history: the match arm of request_loop taken last
    prevCmd,       \* history: the arm taken before that one, "none" once a turn starts
    alive,         \* number of producer threads spawned and not yet returned
    delivered,     \* number of chunks the transport has delivered in this run
    lastLine,      \* history: the line read_line returned last
    body,          \* what the producer read of req to serialize it (main.rs:167)
    single         \* a call of individual_request: its inputs and its result

vars == <<messages, pc, prompt, full_message, chan, receiver, producer, perform,
          buf, sent, recvd, stdout, stderr, lastCmd, prevCmd, alive, delivered,
          lastLine, body, single>>

-----------------------------------------------------------------------------
(* Bounds *)

\* chunks the transport delivers over one run of the program
MaxChunks == 3
\* newlines a multi-line prompt may hold before its closing line
MaxLines == 2

-----------------------------------------------------------------------------
(* Characters and strings *)

NL == "\n"
CR == "\r"
SP == " "
DQ == "\""

\* char::is_whitespace for the characters used here (str::trim, main.rs:341)
IsWhite(c) == c \in {SP, NL, CR, "\t"}

RECURSIVE TrimStart(_)
TrimStart(s) ==
    IF s = <<>> THEN <<>>
    ELSE IF IsWhite(Head(s)) THEN TrimStart(Tail(s)) ELSE s

RECURSIVE TrimEnd(_)
TrimEnd(s) ==
    IF s = <<>> THEN <<>>
    ELSE IF IsWhite(s[Len(s)]) THEN TrimEnd(SubSeq(s, 1, Len(s) - 1)) ELSE s

\* str::trim: leading and trailing whitespace removed
Trim(s) == TrimEnd(TrimStart(s))

StartsWith(s, p) == Len(s) >= Len(p) /\ SubSeq(s, 1, Len(p)) = p
EndsWith(s, p) == Len(s) >= Len(p) /\ SubSeq(s, Len(s) - Len(p) + 1, Len(s)) = p

RECURSIVE CountChar(_, _)
CountChar(s, c) ==
    IF s = <<>> THEN 0
    ELSE (IF Head(s) = c THEN 1 ELSE 0) + CountChar(Tail(s), c)

\* the literals matched at main.rs:342-372
HelpCmd   == <<"#", "h", "e", "l", "p">>
ExitCmd   == <<"#", "e", "x", "i", "t">>
QuitCmd   == <<"#", "q", "u", "i", "t">>
ClearCmd  == <<"#", "c", "l", "e", "a", "r">>
StatusCmd == <<"#", "s", "t", "a", "t", "u", "s">>
ResetCmd  == <<"#", "r", "e", "s", "e", "t">>
SystemCmd == <<"#", "s", "y", "s", "t", "e", "m">>
RepeatCmd == <<"#", "r", "e", "p", "e", "a", "t">>
Commands  == {HelpCmd, ExitCmd, QuitCmd, ClearCmd, StatusCmd, ResetCmd,
              SystemCmd, RepeatCmd}

\* the delimiter of main.rs:384 and 396
TripleQuote == <<DQ, DQ, DQ>>

\* the glyphs of main.rs:198 and main.rs:206
BadEnvelopeGlyph == <<"skull">>
BadUtf8Glyph == <<"warning">>

-----------------------------------------------------------------------------
(* Inputs *)

Line(s) == s \o <<NL>>

\* lines typed at the prompt of main.rs:338
InputLines ==
    { Line(c) : c \in Commands } \cup
    { <<SP>> \o Line(ResetCmd),
      Line(<<"a">>),
      TripleQuote \o Line(<<"a">>) }

\* lines typed after #system (main.rs:364)
SystemLines == { <<SP, "s", SP, NL>> }

\* lines typed inside a multi-line prompt (main.rs:394)
CaptureLines == { Line(<<"a">>), <<"b">> \o TripleQuote \o <<NL>> }

ChatKeys == {"model", "created_at", "message", "done"}

Chat(text, d) ==
    [utf8 |-> TRUE, keys |-> ChatKeys, content |-> text, done |-> d, error |-> <<>>]

\* bytes that are not UTF-8
BadUtf8Chunk ==
    [utf8 |-> FALSE, keys |-> {}, content |-> <<>>, done |-> FALSE, error |-> <<>>]
\* text that is no JSON object of either shape
GarbageChunk ==
    [utf8 |-> TRUE, keys |-> {}, content |-> <<>>, done |-> FALSE, error |-> <<>>]
\* {"error": "model not found"}
ErrorChunk ==
    [utf8 |-> TRUE, keys |-> {"error"}, content |-> <<>>, done |-> FALSE,
     error |-> <<"n", "f">>]

\* chunks the transport may hand to the write callback
Chunks ==
    { BadUtf8Chunk, GarbageChunk, ErrorChunk,
      Chat(<<"H", "i">>, FALSE), Chat(<<"!">>, TRUE), Chat(<<SP>>, FALSE) }

-----------------------------------------------------------------------------
(* Decoding: the write callback of individual_request_ch *)

\* std::str::from_utf8(&data) is Ok (main.rs:184)
FromUtf8Ok(data) == data.utf8

\* serde_json::from_str::<LlamaResponse>(utf) is Ok (main.rs:187, 79-86)
ParsesAsLlamaResponse(data) == FromUtf8Ok(data) /\ ChatKeys \subseteq data.keys

\* serde_json::from_str::<ErrorResponse>(utf) is Ok (main.rs:97-101, 143)
ParsesAsErrorResponse(data) == FromUtf8Ok(data) /\ "error" \in data.keys

\* a slip: both decode failures send the same glyph
DecodeOneGlyph(data) ==
    IF ParsesAsLlamaResponse(data)
    THEN [done |-> data.done, chunk |-> data.content]
    ELSE [done |-> FALSE, chunk |-> BadEnvelopeGlyph]

\* a slip: the text of the final envelope is left out
DecodeDropsFinalText(data) ==
    IF FromUtf8Ok(data)
    THEN IF ParsesAsLlamaResponse(data)
         THEN [done |-> data.done,
               chunk |-> IF data.done THEN <<>> ELSE data.content]
         ELSE [done |-> FALSE, chunk |-> BadEnvelopeGlyph]
    ELSE [done |-> FALSE, chunk |-> BadUtf8Glyph]

\* the ChannelMessage the callback sends for one chunk (main.rs:184-209)
Decode(data) ==
    IF FromUtf8Ok(data)
    THEN IF ParsesAsLlamaResponse(data)
         THEN [done |-> data.done, chunk |-> data.content]
         ELSE [done |-> FALSE, chunk |-> BadEnvelopeGlyph]
    ELSE [done |-> FALSE, chunk |-> BadUtf8Glyph]

\* number of bytes of a chunk
ChunkLen(data) == 1 + Len(data.content) + Len(data.error) + Cardinality(data.keys)

RECURSIVE BufLen(_)
BufLen(b) == IF b = <<>> THEN 0 ELSE ChunkLen(Head(b)) + BufLen(Tail(b))

\* a slip: a chunk that does not decode is reported to curl as not written
WriteFunctionReturnDecodedOnly(b, data) ==
    IF ParsesAsLlamaResponse(data) THEN BufLen(Append(b, data)) - BufLen(b) ELSE 0

\* the callback's return value, Ok(buf.len() - cl) (main.rs:183, 210-211)
WriteFunctionReturn(b, data) == BufLen(Append(b, data)) - BufLen(b)

-----------------------------------------------------------------------------
(* The channel *)

\* Sender::send (main.rs:190): the queue after a send
ChanSend(q, m) == Append(q, m)

\* a slip: the newest message is received first
ChanRecvNewest(q) == q[Len(q)]

\* Receiver::try_recv (main.rs:294): the value received and the queue left
ChanRecvValue(q) == Head(q)
ChanRecvRest(q) == Tail(q)

\* the three outcomes of try_recv
TryRecvResult(q, senderExists) ==
    IF q # <<>> THEN "Ok"
    ELSE IF senderExists THEN "Empty" ELSE "Disconnected"

-----------------------------------------------------------------------------
(* Output *)

Banner(name) == [kind |-> name, role |-> "", content |-> <<>>]
StatusLine(m) == [kind |-> "status", role |-> m.role, content |-> m.content]
DeltaText(t) == [kind |-> "delta", role |-> "", content |-> t]

Msg(r, c) == [role |-> r, content |-> c]

\* the producer has not read the request yet
NoBody == [read |-> FALSE, messages |-> <<>>]

\* a slip: the body is built from an empty request
SerializedEmpty(msgs) == [read |-> TRUE, messages |-> <<>>]

\* serde_json::to_string(&request_object): the messages the thread has read
\* (main.rs:167)
Serialized(msgs) == [read |-> TRUE, messages |-> msgs]

\* individual_request is not called (main.rs:111 has no caller)
\* a result of individual_request: Ok(text), Err(text) or a panic
Result(tag, text) == [tag |-> tag, text |-> text]

NotCalled ==
    [state |-> "not_called", request |-> <<>>, transfer |-> "Ok",
     response |-> GarbageChunk, result |-> Result("none", <<>>)]

-----------------------------------------------------------------------------
(* Initial state: request_loop entered, nothing read yet (main.rs:323-338) *)

Init ==
    /\ messages = <<>>
    /\ pc = "read_line"
    /\ prompt = <<>>
    /\ full_message = <<>>
    /\ chan = <<>>
    /\ receiver = FALSE
    /\ producer = "none"
    /\ perform = "none"
    /\ buf = <<>>
    /\ sent = <<>>
    /\ recvd = <<>>
    /\ stdout = <<>>
    /\ stderr = <<>>
    /\ lastCmd = "none"
    /\ prevCmd = "none"
    /\ alive = 0
    /\ delivered = 0
    /\ lastLine = <<>>
    /\ body = NoBody
    /\ single = NotCalled

-----------------------------------------------------------------------------
(* request_single_message: the foreground side of one turn *)

\* a slip: the receiving end is bound to _ and dropped at once
ReceiverDiscarded == FALSE

\* let (sender, receiver) = channel(): the receiving end is a local of
\* request_single_message and lives to its return (main.rs:284)
ReceiverBound == TRUE

\* channel(), String::new() and sc.spawn (main.rs:284-290)
StartTurn ==
    /\ chan' = <<>>
    /\ receiver' = ReceiverBound
    /\ full_message' = <<>>
    /\ producer' = "running"
    /\ perform' = "none"
    /\ buf' = <<>>
    /\ sent' = <<>>
    /\ recvd' = <<>>
    /\ alive' = alive + 1
    /\ prevCmd' = "none"
    /\ body' = NoBody
    /\ pc' = "try_recv"

\* a match arm that starts no turn: the next state waits at pc2
NoTurn(pc2) ==
    /\ pc' = pc2
    /\ buf' = <<>>
    /\ sent' = <<>>
    /\ recvd' = <<>>
    /\ perform' = "none"
    /\ prevCmd' = lastCmd
    /\ body' = NoBody
    /\ UNCHANGED <<chan, receiver, full_message, producer, alive>>

\* full_message.push_str(&val.chunk) (main.rs:299)
PushStr(full, val) == full \o val.chunk

\* one pass of the loop body: receiver.try_recv() and its match (main.rs:294-306)
TryRecv ==
    /\ pc = "try_recv"
    /\ UNCHANGED <<lastLine, body, single>>
    /\ IF TryRecvResult(chan, producer = "running") = "Ok"
       THEN /\ chan' = ChanRecvRest(chan)
            /\ recvd' = Append(recvd, ChanRecvValue(chan))
            /\ stdout' = Append(stdout, DeltaText(ChanRecvValue(chan).chunk))
            /\ full_message' = PushStr(full_message, ChanRecvValue(chan))
            /\ pc' = IF ChanRecvValue(chan).done THEN "join" ELSE "try_recv"
       ELSE /\ pc' = "sleep"
            /\ UNCHANGED <<chan, recvd, stdout, full_message>>
    /\ UNCHANGED <<messages, prompt, receiver, producer, perform, buf, sent,
                   stderr, lastCmd, prevCmd, alive, delivered>>

\* std::thread::sleep(Duration::from_millis(150)) returns (main.rs:305)
Wake ==
    /\ pc = "sleep"
    /\ UNCHANGED <<lastLine, body, single>>
    /\ pc' = "try_recv"
    /\ UNCHANGED <<messages, prompt, full_message, chan, receiver, producer,
                   perform, buf, sent, recvd, stdout, stderr, lastCmd, prevCmd, alive,
                   delivered>>

\* a slip: the thread is detached, not joined
JoinWithoutWaiting(p) == TRUE

\* jh.join() returns once the thread has ended (main.rs:308)
JoinReady(p) == p \in {"finished", "panicked"}

\* jh.join().unwrap() and the end of the scope (main.rs:308-309)
Join ==
    /\ pc = "join"
    /\ UNCHANGED <<lastLine, body, single>>
    /\ JoinReady(producer)
    /\ pc' = IF producer = "panicked" THEN "panicked" ELSE "push"
    /\ producer' = "none"
    /\ UNCHANGED <<messages, prompt, full_message, chan, receiver, perform, buf,
                   sent, recvd, stdout, stderr, lastCmd, prevCmd, alive, delivered>>

\* a slip: the accumulator is appended as it is
AssistantContentUntrimmed(full) == full

\* a slip: only the trailing whitespace is removed
AssistantContentTrimEnd(full) == TrimEnd(full)

\* full_message.trim().to_string() (main.rs:314)
AssistantContent(full) == Trim(full)

\* println, req.messages.push and the return (main.rs:310-317)
Push ==
    /\ pc = "push"
    /\ UNCHANGED <<lastLine, body, single>>
    /\ stdout' = Append(stdout, Banner("newline"))
    /\ messages' = Append(messages, Msg("assistant", AssistantContent(full_message)))
    /\ full_message' = <<>>
    /\ chan' = <<>>
    /\ receiver' = FALSE
    /\ pc' = "read_line"
    /\ UNCHANGED <<prompt, producer, perform, buf, sent, recvd, stderr, lastCmd, prevCmd,
                   alive, delivered>>

-----------------------------------------------------------------------------
(* individual_request_ch: the producer thread *)

\* the thread's first statement: the request is serialized (main.rs:167)
Serialize ==
    /\ producer = "running"
    /\ ~body.read
    /\ body' = Serialized(messages)
    /\ UNCHANGED <<messages, pc, prompt, full_message, chan, receiver, producer,
                   perform, buf, sent, recvd, stdout, stderr, lastCmd, prevCmd,
                   alive, delivered, lastLine, single>>

\* the write callback runs on one chunk (main.rs:182-212); curl aborts the
\* transfer when the callback returns another count than it was given
WriteFunction(data) ==
    /\ producer = "running"
    /\ body.read
    /\ delivered < MaxChunks
    /\ UNCHANGED <<lastLine, body, single>>
    /\ delivered' = delivered + 1
    /\ IF receiver
       THEN /\ chan' = ChanSend(chan, Decode(data))
            /\ sent' = Append(sent, Decode(data))
            /\ buf' = Append(buf, data)
            /\ IF WriteFunctionReturn(buf, data) = ChunkLen(data)
               THEN UNCHANGED <<producer, perform, stderr, alive>>
               ELSE /\ producer' = "finished"
                    /\ perform' = "Err"
                    /\ stderr' = Append(stderr, Banner("transfer_error"))
                    /\ alive' = alive - 1
       ELSE /\ producer' = "panicked"
            /\ alive' = alive - 1
            /\ UNCHANGED <<chan, sent, buf, perform, stderr>>
    /\ UNCHANGED <<messages, pc, prompt, full_message, receiver, recvd, stdout,
                   lastCmd, prevCmd>>

\* transfer.perform() returns and the thread ends (main.rs:214-220)
PerformReturn(result) ==
    /\ producer = "running"
    /\ body.read
    /\ UNCHANGED <<lastLine, body, single>>
    /\ perform' = result
    /\ producer' = "finished"
    /\ alive' = alive - 1
    /\ stderr' = IF result = "Err" THEN Append(stderr, Banner("transfer_error"))
                 ELSE stderr
    /\ UNCHANGED <<messages, pc, prompt, full_message, chan, receiver, buf, sent,
                   recvd, stdout, lastCmd, prevCmd, delivered>>

-----------------------------------------------------------------------------
(* request_loop: one action per match arm (main.rs:341-416) *)

\* the scrutinee prompt[..].trim() (main.rs:341)
Matched(line) == Trim(line)

\* "#help" (main.rs:342-344)
CmdHelp(line) ==
    /\ pc = "read_line"
    /\ lastLine' = line
    /\ UNCHANGED single
    /\ Matched(line) = HelpCmd
    /\ stdout' = <<Banner("help")>>
    /\ stderr' = <<>>
    /\ lastCmd' = "help"
    /\ NoTurn("read_line")
    /\ UNCHANGED <<messages, prompt, delivered>>

\* "#exit" (main.rs:345)
CmdExit(line) ==
    /\ pc = "read_line"
    /\ lastLine' = line
    /\ UNCHANGED single
    /\ Matched(line) = ExitCmd
    /\ stdout' = <<>>
    /\ stderr' = <<>>
    /\ lastCmd' = "exit"
    /\ NoTurn("exited")
    /\ UNCHANGED <<messages, prompt, delivered>>

\* "#quit" (main.rs:346)
CmdQuit(line) ==
    /\ pc = "read_line"
    /\ lastLine' = line
    /\ UNCHANGED single
    /\ Matched(line) = QuitCmd
    /\ stdout' = <<>>
    /\ stderr' = <<>>
    /\ lastCmd' = "quit"
    /\ NoTurn("exited")
    /\ UNCHANGED <<messages, prompt, delivered>>

\* "#clear" (main.rs:347)
CmdClear(line) ==
    /\ pc = "read_line"
    /\ lastLine' = line
    /\ UNCHANGED single
    /\ Matched(line) = ClearCmd
    /\ stdout' = <<Banner("clear")>>
    /\ stderr' = <<>>
    /\ lastCmd' = "clear"
    /\ NoTurn("read_line")
    /\ UNCHANGED <<messages, prompt, delivered>>

\* the lines printed by the loop over req.messages (main.rs:349-352)
StatusOutput(msgs) == [i \in 1..Len(msgs) |-> StatusLine(msgs[i])]

\* "#status" (main.rs:348-353)
CmdStatus(line) ==
    /\ pc = "read_line"
    /\ lastLine' = line
    /\ UNCHANGED single
    /\ Matched(line) = StatusCmd
    /\ stdout' = StatusOutput(messages)
    /\ stderr' = <<>>
    /\ lastCmd' = "status"
    /\ NoTurn("read_line")
    /\ UNCHANGED <<messages, prompt, delivered>>

\* a slip: the transcript is kept
KeepMessages(msgs) == msgs

\* req.messages = Vec::new() (main.rs:356 and 360)
ResetMessages(msgs) == <<>>

\* "#reset" (main.rs:355-358)
CmdReset(line) ==
    /\ pc = "read_line"
    /\ lastLine' = line
    /\ UNCHANGED single
    /\ Matched(line) = ResetCmd
    /\ messages' = ResetMessages(messages)
    /\ stdout' = <<Banner("history_reset")>>
    /\ stderr' = <<>>
    /\ lastCmd' = "reset"
    /\ NoTurn("read_line")
    /\ UNCHANGED <<prompt, delivered>>

\* "#system", up to its read_line (main.rs:359-365)
CmdSystem(line) ==
    /\ pc = "read_line"
    /\ lastLine' = line
    /\ UNCHANGED single
    /\ Matched(line) = SystemCmd
    /\ messages' = ResetMessages(messages)
    /\ stdout' = <<Banner("history_reset"), Banner("input_system_prompt")>>
    /\ stderr' = <<>>
    /\ lastCmd' = "system"
    /\ NoTurn("system_read")
    /\ UNCHANGED <<prompt, delivered>>

\* a slip: the line is stored as read
SystemContentAsRead(new_system) == new_system

\* new_system.trim().to_string() (main.rs:368)
SystemContent(new_system) == Trim(new_system)

\* "#system", from the line read on (main.rs:364-371)
SystemRead(new_system) ==
    /\ pc = "system_read"
    /\ lastLine' = new_system
    /\ UNCHANGED <<body, single>>
    /\ messages' = Append(messages, Msg("system", SystemContent(new_system)))
    /\ pc' = "read_line"
    /\ UNCHANGED <<prompt, full_message, chan, receiver, producer, perform, buf,
                   sent, recvd, stdout, stderr, lastCmd, prevCmd, alive, delivered>>

\* a slip: the entry removed is the oldest
PopOldest(msgs) == IF msgs = <<>> THEN <<>> ELSE Tail(msgs)

\* a slip: no entry is removed
PopNothing(msgs) == msgs

\* req.messages.pop() (main.rs:373)
Pop(msgs) == IF msgs = <<>> THEN <<>> ELSE SubSeq(msgs, 1, Len(msgs) - 1)

\* a slip: the test is made on a length that is never negative
RepeatRunsAlways(msgs) == Len(msgs) >= 0

\* the test req.messages.len() > 0 (main.rs:374)
RepeatRuns(msgs) == Len(msgs) > 0

\* "#repeat" (main.rs:372-382)
CmdRepeat(line) ==
    /\ pc = "read_line"
    /\ lastLine' = line
    /\ UNCHANGED single
    /\ Matched(line) = RepeatCmd
    /\ messages' = Pop(messages)
    /\ stderr' = <<>>
    /\ lastCmd' = "repeat"
    /\ IF RepeatRuns(Pop(messages))
       THEN /\ StartTurn
            /\ stdout' = <<>>
       ELSE /\ NoTurn("read_line")
            /\ stdout' = <<Banner("no_history")>>
    /\ UNCHANGED <<prompt, delivered>>

\* the default arm, up to its first read_line or to the end (main.rs:383-414)
Default(line) ==
    /\ pc = "read_line"
    /\ lastLine' = line
    /\ UNCHANGED single
    /\ Matched(line) \notin Commands
    /\ stdout' = <<>>
    /\ stderr' = <<>>
    /\ lastCmd' = "prompt"
    /\ IF StartsWith(line, TripleQuote)
       THEN /\ prompt' = SubSeq(line, 4, Len(line))
            /\ NoTurn("multiline_read")
            /\ UNCHANGED messages
       ELSE /\ prompt' = <<>>
            /\ messages' = Append(messages, Msg("user", line))
            /\ StartTurn
    /\ UNCHANGED delivered

\* the default arm, one pass of its inner loop (main.rs:391-414); the slice
\* &rl[..rlen-4] panics when rl is shorter than four bytes
MultilineRead(rl) ==
    /\ pc = "multiline_read"
    /\ lastLine' = rl
    /\ UNCHANGED single
    /\ IF EndsWith(Trim(rl), TripleQuote)
       THEN IF Len(rl) < 4
            THEN /\ pc' = "panicked"
                 /\ UNCHANGED <<messages, prompt, full_message, chan, receiver,
                                producer, perform, buf, sent, recvd, alive,
                                prevCmd, body>>
            ELSE /\ messages' = Append(messages,
                        Msg("user", prompt \o SubSeq(rl, 1, Len(rl) - 4)))
                 /\ prompt' = <<>>
                 /\ StartTurn
       ELSE /\ CountChar(prompt, NL) < MaxLines
            /\ prompt' = prompt \o rl
            /\ UNCHANGED <<messages, pc, full_message, chan, receiver, producer,
                           perform, buf, sent, recvd, alive, prevCmd, body>>
    /\ UNCHANGED <<stdout, stderr, lastCmd, delivered>>

-----------------------------------------------------------------------------
(* Specifications *)

Foreground ==
    \/ \E line \in InputLines :
          \/ CmdHelp(line)
          \/ CmdExit(line)
          \/ CmdQuit(line)
          \/ CmdClear(line)
          \/ CmdStatus(line)
          \/ CmdReset(line)
          \/ CmdSystem(line)
          \/ CmdRepeat(line)
          \/ Default(line)
    \/ \E line \in SystemLines : SystemRead(line)
    \/ \E line \in CaptureLines : MultilineRead(line)

Consumer == TryRecv \/ Wake \/ Join \/ Push

Producer ==
    \/ Serialize
    \/ \E data \in Chunks : WriteFunction(data)
    \/ \E result \in {"Ok", "Err"} : PerformReturn(result)

Next == Foreground \/ Consumer \/ Producer

Spec == Init /\ [][Next]_vars

\* lines of the user who types plain prompts and #repeat only
TurnLines == { Line(<<"a">>), Line(RepeatCmd) }

\* the turns alone: every way a turn starts from the prompt, and both threads
TurnNext ==
    \/ \E line \in TurnLines : Default(line) \/ CmdRepeat(line)
    \/ Consumer
    \/ Producer

\* the operating system schedules both threads, and a transfer ends: the
\* consumer's steps and the producer's steps are each taken when they stay
\* possible; nothing obliges the user to type a line
FairSpec == Init /\ [][TurnNext]_vars /\ WF_vars(Consumer) /\ WF_vars(Producer)

-----------------------------------------------------------------------------
(* individual_request: the non-streaming request (main.rs:111-163) *)

\* msg.to_string() of the transport's error (main.rs:137)
TransportMessage == <<"t">>
\* err.to_string() of the JSON decoder's error (main.rs:157)
DecodeMessage == <<"d">>

\* complete response bodies: valid UTF-8 or not, an object of the error
\* shape, of the chat shape, of both or of neither
SingleResponses ==
    { [utf8 |-> u, keys |-> k, content |-> c, done |-> TRUE, error |-> e] :
        u \in BOOLEAN,
        k \in {{}, {"error"}, ChatKeys, ChatKeys \cup {"error"}},
        c \in {<<>>, <<"H", "i">>},
        e \in {<<>>, <<"n", "f">>} }

\* transcripts of the request passed in
SingleRequests == { <<>>, <<Msg("user", <<"a">>)>> }

\* a slip: the chat shape is tried before the error shape
IndividualRequestChatFirst(transfer, response) ==
    IF transfer = "Err" THEN Result("Err", TransportMessage)
    ELSE IF ~FromUtf8Ok(response) THEN Result("panic", <<>>)
    ELSE IF ParsesAsLlamaResponse(response) THEN Result("Ok", response.content)
    ELSE IF ParsesAsErrorResponse(response) THEN Result("Err", response.error)
    ELSE Result("Err", DecodeMessage)

\* the value individual_request returns (main.rs:134-162)
IndividualRequest(transfer, response) ==
    IF transfer = "Err" THEN Result("Err", TransportMessage)
    ELSE IF ~FromUtf8Ok(response) THEN Result("panic", <<>>)
    ELSE IF ParsesAsErrorResponse(response) THEN Result("Err", response.error)
    ELSE IF ParsesAsLlamaResponse(response) THEN Result("Ok", response.content)
    ELSE Result("Err", DecodeMessage)

\* a call of individual_request about to be made
SingleInit ==
    /\ messages \in SingleRequests
    /\ single \in { [state |-> "called", request |-> messages, transfer |-> t,
                     response |-> r, result |-> Result("none", <<>>)] :
                       t \in {"Ok", "Err"}, r \in SingleResponses }
    /\ pc = "read_line"
    /\ prompt = <<>>
    /\ full_message = <<>>
    /\ chan = <<>>
    /\ receiver = FALSE
    /\ producer = "none"
    /\ perform = "none"
    /\ buf = <<>>
    /\ sent = <<>>
    /\ recvd = <<>>
    /\ stdout = <<>>
    /\ stderr = <<>>
    /\ lastCmd = "none"
    /\ prevCmd = "none"
    /\ alive = 0
    /\ delivered = 0
    /\ lastLine = <<>>
    /\ body = NoBody

\* the call runs to its return; the request is borrowed and not written
SingleCall ==
    /\ single.state = "called"
    /\ single' = [single EXCEPT
                    !.state = "returned",
                    !.result = IndividualRequest(single.transfer, single.response)]
    /\ UNCHANGED <<messages, pc, prompt, full_message, chan, receiver, producer,
                   perform, buf, sent, recvd, stdout, stderr, lastCmd, prevCmd,
                   alive, delivered, lastLine, body>>

SingleSpec == SingleInit /\ [][SingleCall]_vars

\* lines typed at the prompt by the user who sets a system message and
\* enters prompts, plain, multi-line or closed on their first line
EntryLines ==
    { Line(SystemCmd),
      Line(<<"a">>),
      TripleQuote \o Line(<<"h">>),
      TripleQuote \o <<"h">> \o TripleQuote \o <<NL>> }

\* lines typed after #system, two of them reading as commands
EntrySystemLines == { Line(ExitCmd), Line(ResetCmd), <<SP, "s", SP, NL>> }

\* lines typed inside a multi-line prompt: closing with "\n", with "\r\n",
\* with a space before "\n", at the end of input; the delimiter inside the
\* line; no delimiter
EntryCaptureLines ==
    { <<"w">> \o TripleQuote \o <<NL>>,
      <<"w">> \o TripleQuote \o <<CR, NL>>,
      <<"w">> \o TripleQuote \o <<SP, NL>>,
      <<"w">> \o TripleQuote,
      TripleQuote,
      <<"a">> \o TripleQuote \o <<"b", NL>>,
      Line(<<"a">>) }

\* the handling of input up to the request: no chunk is delivered
EntryNext ==
    \/ \E line \in EntryLines : CmdSystem(line) \/ Default(line)
    \/ \E line \in EntrySystemLines : SystemRead(line)
    \/ \E line \in EntryCaptureLines : MultilineRead(line)
    \/ TryRecv
    \/ Wake
    \/ Serialize
    \/ \E result \in {"Ok", "Err"} : PerformReturn(result)

EntrySpec == Init /\ [][EntryNext]_vars

-----------------------------------------------------------------------------
(* Properties *)

RECURSIVE ConcatTexts(_)
\* the texts of a sequence of deltas, joined in order
ConcatTexts(ds) ==
    IF ds = <<>> THEN <<>> ELSE Head(ds).chunk \o ConcatTexts(Tail(ds))

\* the position of the first final delta, 0 when there is none
FirstFinal(ds) ==
    IF \E i \in 1..Len(ds) : ds[i].done
    THEN CHOOSE i \in 1..Len(ds) : ds[i].done /\ \A j \in 1..(i - 1) : ~ds[j].done
    ELSE 0

UpToFirstFinal(ds) == SubSeq(ds, 1, FirstFinal(ds))

InTurn == pc \in {"try_recv", "sleep", "join", "push"}

\* C1, as stated: a turn whose stream holds a final chunk appends exactly one
\* entry, of role assistant, whose content is the concatenation of the texts of
\* the deltas up to and including the first final one, and changes no entry.
C1_AppendsConcatenation ==
    [][InTurn =>
         /\ (pc' = "push" => FirstFinal(sent') > 0)
         /\ IF pc = "push"
            THEN messages' = Append(messages,
                     Msg("assistant", ConcatTexts(UpToFirstFinal(sent))))
            ELSE messages' = messages]_vars

\* C1, amended: the content of the appended entry is that concatenation with
\* its leading and trailing whitespace removed.
C1_AppendsTrimmedConcatenation ==
    [][InTurn =>
         /\ (pc' = "push" => FirstFinal(sent') > 0)
         /\ IF pc = "push"
            THEN messages' = Append(messages,
                     Msg("assistant", Trim(ConcatTexts(UpToFirstFinal(sent)))))
            ELSE messages' = messages]_vars

\* the turn of the example has returned: "Hi" then "!" (final) gave "Hi!"
C1_Witness ==
    /\ pc = "read_line"
    /\ sent = <<[done |-> FALSE, chunk |-> <<"H", "i">>],
                [done |-> TRUE, chunk |-> <<"!">>]>>
    /\ messages = <<Msg("user", Line(<<"a">>)),
                    Msg("assistant", <<"H", "i", "!">>)>>

\* C2: when the producer has ended without sending a final delta, the polling
\* loop of the turn ends and the REPL waits for input again.
C2_TurnEndsWithoutFinal ==
    (producer = "finished" /\ pc \in {"try_recv", "sleep"} /\ FirstFinal(sent) = 0)
        ~> (pc = "read_line")

\* the chunks of b that do not match the error envelope
NotErrorShaped(b) == { i \in 1..Len(b) : ~ParsesAsErrorResponse(b[i]) }

\* C3: a chunk matching the error envelope is reported as a failure of the
\* request and no delta is sent for it.
C3_ErrorEnvelopeSurfaced ==
    /\ Len(sent) <= Cardinality(NotErrorShaped(buf))
    /\ (NotErrorShaped(buf) # 1..Len(buf) => stderr # <<>>)

\* C4: one delta per chunk: the bad-utf8 glyph, not final, for bytes that are
\* not UTF-8; the distinct bad-envelope glyph, not final, for text that is no
\* chat envelope; the content and the done flag of a chat envelope.
C4_OneDeltaPerChunk ==
    /\ Len(sent) = Len(buf)
    /\ BadUtf8Glyph # BadEnvelopeGlyph
    /\ \A i \in 1..Len(buf) :
          /\ ~buf[i].utf8 =>
                sent[i] = [done |-> FALSE, chunk |-> BadUtf8Glyph]
          /\ (buf[i].utf8 /\ ~(ChatKeys \subseteq buf[i].keys)) =>
                sent[i] = [done |-> FALSE, chunk |-> BadEnvelopeGlyph]
          /\ (buf[i].utf8 /\ ChatKeys \subseteq buf[i].keys) =>
                sent[i] = [done |-> buf[i].done, chunk |-> buf[i].content]

\* the producer has decoded one chunk of each class
C4_Witness ==
    /\ buf = <<BadUtf8Chunk, GarbageChunk, Chat(<<"!">>, TRUE)>>
    /\ sent = <<[done |-> FALSE, chunk |-> BadUtf8Glyph],
                [done |-> FALSE, chunk |-> BadEnvelopeGlyph],
                [done |-> TRUE, chunk |-> <<"!">>]>>

RECURSIVE EmittedContent(_, _)
\* the texts of the deltas sent for the parseable chunks of b, joined in order
EmittedContent(b, ds) ==
    IF b = <<>> \/ ds = <<>> THEN <<>>
    ELSE (IF ParsesAsLlamaResponse(Head(b)) THEN Head(ds).chunk ELSE <<>>)
             \o EmittedContent(Tail(b), Tail(ds))

RECURSIVE DecodedContent(_)
\* the message content of the parseable chunks of b, joined in order
DecodedContent(b) ==
    IF b = <<>> THEN <<>>
    ELSE (IF ParsesAsLlamaResponse(Head(b)) THEN Head(b).content ELSE <<>>)
             \o DecodedContent(Tail(b))

\* C5: the texts of the deltas that are not sentinels, joined in the order
\* sent, are the contents of the parseable chunks joined in arrival order.
C5_ContentPreserved ==
    /\ Len(sent) = Len(buf)
    /\ EmittedContent(buf, sent) = DecodedContent(buf)

\* content, a malformed chunk, then the final content
C5_Witness ==
    /\ buf = <<Chat(<<"H", "i">>, FALSE), GarbageChunk, Chat(<<"!">>, TRUE)>>
    /\ EmittedContent(buf, sent) = <<"H", "i", "!">>

Malformed(data) == ~ParsesAsLlamaResponse(data)

\* a malformed chunk of this turn's stream was followed by a final one
FinalAfterMalformed ==
    \E i \in 1..Len(buf) : \E j \in (i + 1)..Len(sent) :
        Malformed(buf[i]) /\ sent[j].done

\* C6: the callback's run on a malformed chunk leaves the producer running
\* with one more delta sent, every chunk delivered has its delta, and a turn
\* whose stream holds a final chunk after a malformed one returns to the REPL
\* with its assistant entry appended.
C6_MalformedNeverAborts ==
    /\ [][(Len(buf') = Len(buf) + 1 /\ Malformed(buf'[Len(buf')])) =>
             /\ producer' = "running"
             /\ Len(sent') = Len(sent) + 1]_vars
    /\ [](Len(sent) = Len(buf))
    /\ ((InTurn /\ FinalAfterMalformed) ~>
           (pc = "read_line" /\ FinalAfterMalformed
              /\ messages[Len(messages)].role = "assistant"))

\* two malformed chunks, then the final one; the turn has returned
C6_Witness ==
    /\ pc = "read_line"
    /\ buf = <<GarbageChunk, BadUtf8Chunk, Chat(<<"!">>, TRUE)>>
    /\ messages[Len(messages)] =
           Msg("assistant", BadEnvelopeGlyph \o BadUtf8Glyph \o <<"!">>)

IsPrefix(s, t) == Len(s) <= Len(t) /\ SubSeq(t, 1, Len(s)) = s

\* C7: the deltas received so far are a prefix of the deltas sent so far, and
\* while the channel exists what was sent is what was received followed by
\* what is still queued.
C7_ReceivedIsPrefixOfSent ==
    /\ IsPrefix(recvd, sent)
    /\ (receiver => sent = recvd \o chan)

\* a send fell between two receives: two deltas received, the third queued
C7_Witness ==
    /\ Len(recvd) = 2
    /\ Len(chan) = 1
    /\ recvd[1].chunk # recvd[2].chunk
    /\ chan[1].chunk # recvd[2].chunk

\* C8: at most one producer is alive; outside the polling loop and the join
\* of a turn (waiting for input, appending the assistant entry, after the
\* loop has ended) none is, so no turn starts beside a running producer.
C8_OneProducerSequentialTurns ==
    /\ alive <= 1
    /\ (alive = 1 <=> producer = "running")
    /\ (pc \notin {"try_recv", "sleep", "join"} => alive = 0 /\ producer = "none")

\* the producer of a second turn runs after the first turn was appended
C8_Witness ==
    /\ producer = "running"
    /\ alive = 1
    /\ Len(messages) = 3
    /\ messages[2].role = "assistant"

\* C9: after #reset the transcript is empty, a #status that follows it prints
\* nothing, and neither starts a request.
C9_ResetEmptiesTranscript ==
    /\ (lastCmd = "reset" =>
           messages = <<>> /\ pc = "read_line" /\ alive = 0 /\ producer = "none")
    /\ ((lastCmd = "status" /\ prevCmd = "reset") =>
           stdout = <<>> /\ pc = "read_line" /\ alive = 0 /\ producer = "none")

\* #status printed nothing right after a #reset that followed a turn
C9_Witness ==
    /\ lastCmd = "status"
    /\ prevCmd = "reset"
    /\ stdout = <<>>
    /\ delivered > 0

\* a step of the "#repeat" arm
RepeatStep == pc = "read_line" /\ lastCmd' = "repeat"

\* C10: #repeat removes the last entry; with an entry left it starts a turn,
\* and on a transcript of at most one entry it prints the no-history warning
\* and starts none.
C10_RepeatNeedsHistory ==
    [][RepeatStep =>
         /\ messages' = SubSeq(messages, 1, Len(messages) - 1)
         /\ IF Len(messages) <= 1
            THEN /\ stdout' = <<Banner("no_history")>>
                 /\ pc' = "read_line"
                 /\ alive' = 0
                 /\ producer' = "none"
            ELSE /\ pc' = "try_recv"
                 /\ alive' = 1
                 /\ producer' = "running"
                 /\ stdout' = <<>>]_vars

\* #repeat right after #system and its line: one system message, no reply
C10_Witness ==
    /\ lastCmd = "repeat"
    /\ prevCmd = "system"
    /\ messages = <<>>
    /\ stdout = <<Banner("no_history")>>
    /\ pc = "read_line"

\* a closing line without its delimiter and what follows the delimiter
StripClosing(rl) == SubSeq(TrimEnd(rl), 1, Len(TrimEnd(rl)) - 3)

\* C11: the opening line loses its delimiter and nothing else; a closing line
\* (one that ends in the delimiter, whatever whitespace follows before its
\* "\n" or "\r\n") ends the capture with exactly one user message appended,
\* whose content is the captured lines with the closing delimiter, and what
\* follows it, removed.
C11_DelimitersStripped ==
    [][/\ (pc = "read_line" /\ pc' = "multiline_read") =>
              TripleQuote \o prompt' = lastLine'
       /\ (/\ pc = "multiline_read"
           /\ EndsWith(lastLine', <<NL>>)
           /\ EndsWith(Trim(lastLine'), TripleQuote)) =>
              /\ pc' = "try_recv"
              /\ messages' = Append(messages,
                     Msg("user", prompt \o StripClosing(lastLine')))]_vars

\* the line read last is the opening line of the capture
OpeningLineRead == TripleQuote \o prompt = lastLine

\* C17: the capture goes on only while no line read, the opening line (past
\* its opening delimiter) included, ended with the delimiter; and it ends
\* only on a line that ends with the delimiter.
C17_CaptureEndsAtFirstClosingLine ==
    [][/\ pc' = "multiline_read" =>
              ~EndsWith(Trim(IF OpeningLineRead' THEN prompt' ELSE lastLine'),
                        TripleQuote)
       /\ (pc = "multiline_read" /\ pc' # "multiline_read") =>
              EndsWith(Trim(lastLine'), TripleQuote)]_vars

\* a line without its line terminator
RECURSIVE StripTerminator(_)
StripTerminator(l) ==
    IF l # <<>> /\ l[Len(l)] \in {NL, CR}
    THEN StripTerminator(SubSeq(l, 1, Len(l) - 1)) ELSE l

\* C18, as stated: after #system and its line the transcript is exactly one
\* system message whose content is that line; the line is not taken as a
\* command and no request starts.
C18_SystemLineIsContent ==
    /\ (lastCmd = "system" => pc \in {"system_read", "read_line"})
    /\ (pc = "system_read" => messages = <<>>)
    /\ (lastCmd = "system" /\ pc = "read_line") =>
          /\ messages = <<Msg("system", StripTerminator(lastLine))>>
          /\ producer = "none" /\ alive = 0 /\ ~body.read

\* C18, amended: the content is that line with its leading and trailing
\* whitespace removed.
C18_SystemLineTrimmedIsContent ==
    /\ (lastCmd = "system" => pc \in {"system_read", "read_line"})
    /\ (pc = "system_read" => messages = <<>>)
    /\ (lastCmd = "system" /\ pc = "read_line") =>
          /\ messages = <<Msg("system", Trim(lastLine))>>
          /\ producer = "none" /\ alive = 0 /\ ~body.read

\* "#exit" typed after a second #system: it replaced the first system message
C18_Witness ==
    /\ lastCmd = "system"
    /\ prevCmd = "system"
    /\ pc = "read_line"
    /\ lastLine = Line(ExitCmd)
    /\ messages = <<Msg("system", ExitCmd)>>

\* C12: individual_request, given a complete response body of the error
\* shape, returns Err with the error text, also when the body has the chat
\* shape as well; it never returns Ok for such a body; the transcript passed
\* in is as it was.
C12_ErrorShapeCheckedFirst ==
    /\ messages = single.request
    /\ (single.state = "returned" /\ ParsesAsErrorResponse(single.response)) =>
          /\ single.result.tag # "Ok"
          /\ single.transfer = "Ok" =>
                single.result = Result("Err", single.response.error)

\* a body of both shapes was answered with the error text
C12_Witness ==
    /\ single.state = "returned"
    /\ single.transfer = "Ok"
    /\ single.response.utf8
    /\ single.response.keys = ChatKeys \cup {"error"}
    /\ single.response.content = <<"H", "i">>
    /\ single.result = Result("Err", <<"n", "f">>)
    /\ messages = <<Msg("user", <<"a">>)>>

\* the turn failed: the transfer returned Err, or the service sent a body of
\* the error shape
TurnFailed ==
    \/ perform = "Err"
    \/ \E i \in 1..Len(buf) : ParsesAsErrorResponse(buf[i])

\* C13: when a turn that failed is over, the transcript does not end with an
\* assistant message: the last entry is still the user message of the turn.
C13_FailedTurnAppendsNothing ==
    (pc = "read_line" /\ TurnFailed) =>
        /\ messages # <<>>
        /\ messages[Len(messages)].role = "user"

\* a step that appends one message at the end of the transcript
AppendsOne == \E m \in {messages'[i] : i \in 1..Len(messages')} :
                  messages' = Append(messages, m)

\* C14, as stated: every step appends a message at the end, leaves the
\* transcript unchanged or resets the whole transcript.
C14_AppendOrReset ==
    [][\/ AppendsOne
       \/ messages' = messages
       \/ messages' = <<>>]_vars

\* C14, amended: every step appends a message at the end, leaves the
\* transcript unchanged, resets the whole transcript or, in #repeat only,
\* removes the last message; the entries that stay are unchanged and in
\* their order.
C14_AppendPopOrReset ==
    [][\/ AppendsOne
       \/ messages' = messages
       \/ messages' = <<>>
       \/ /\ RepeatStep
          /\ messages # <<>>
          /\ messages' = SubSeq(messages, 1, Len(messages) - 1)]_vars

\* #repeat took the reply off a transcript of a prompt and its reply
C14_Witness ==
    /\ lastCmd = "repeat"
    /\ pc = "try_recv"
    /\ Len(messages) = 1
    /\ messages[1].role = "user"
    /\ delivered > 0

\* the transcript is written only while no producer is alive, so by the
\* foreground thread alone
TranscriptWrittenAlone ==
    messages' # messages => alive = 0 /\ producer = "none"

\* the channel changes by a send of the producer, by a receive of the
\* consumer, or when the foreground thread creates or drops it
ChannelOneWay ==
    chan' # chan =>
        \/ /\ producer = "running"
           /\ sent' # sent
           /\ chan' = Append(chan, sent'[Len(sent')])
           /\ recvd' = recvd
        \/ /\ pc = "try_recv"
           /\ recvd' = Append(recvd, Head(chan))
           /\ chan' = Tail(chan)
           /\ sent' = sent
        \/ /\ pc \in {"push", "read_line", "multiline_read"}
           /\ chan' = <<>>

\* C15, as stated: the transcript is written by the foreground thread alone,
\* the producer never reads it, and the channel carries deltas from the
\* producer to the consumer only.
C15_ProducerNeverAccessesTranscript ==
    [][/\ TranscriptWrittenAlone
       /\ ChannelOneWay
       /\ (producer = "running" => body' = body)]_vars

\* C15, amended: the transcript is written by the foreground thread alone and
\* never while a producer is alive; the producer reads it, once, into the
\* request body, and what it reads is the transcript as the foreground thread
\* left it; the channel carries deltas from the producer to the consumer only.
C15_ProducerOnlyReadsTranscript ==
    [][/\ TranscriptWrittenAlone
       /\ ChannelOneWay
       /\ (producer = "running" /\ body' # body) =>
              /\ ~body.read
              /\ body' = [read |-> TRUE, messages |-> messages]
              /\ messages' = messages]_vars

\* the producer of a second turn has read a transcript of three entries and
\* sent a delta
C15_Witness ==
    /\ producer = "running"
    /\ body.read
    /\ Len(body.messages) = 3
    /\ body.messages = messages
    /\ chan # <<>>

\* C16, as stated: the assistant message appended when a turn completes is
\* the accumulated text without its trailing whitespace, leading whitespace
\* kept.
C16_TrailingWhitespaceRemoved ==
    [][pc = "push" =>
          messages' = Append(messages,
                             Msg("assistant", TrimEnd(full_message)))]_vars

\* C16, amended: the assistant message appended when a turn completes is the
\* accumulated text without its leading and its trailing whitespace.
C16_SurroundingWhitespaceRemoved ==
    [][pc = "push" =>
          messages' = Append(messages,
                             Msg("assistant", Trim(full_message)))]_vars

\* a reply accumulated as " !" was appended as "!"
C16_Witness ==
    /\ pc = "read_line"
    /\ recvd = <<[done |-> FALSE, chunk |-> <<SP>>],
                 [done |-> TRUE, chunk |-> <<"!">>]>>
    /\ messages # <<>>
    /\ messages[Len(messages)] = Msg("assistant", <<"!">>)

\* the roles of a transcript
Roles(msgs) == [i \in 1..Len(msgs) |-> msgs[i].role]

\* roles in (user, assistant) pairs
RECURSIVE Paired(_)
Paired(roles) ==
    \/ roles = <<>>
    \/ /\ Len(roles) >= 2
       /\ roles[1] = "user"
       /\ roles[2] = "assistant"
       /\ Paired(SubSeq(roles, 3, Len(roles)))

\* an optional leading system message, then (user, assistant) pairs
WellFormed(msgs) ==
    IF msgs # <<>> /\ msgs[1].role = "system"
    THEN Paired(Tail(Roles(msgs)))
    ELSE Paired(Roles(msgs))

\* C19: while the REPL waits for a line the transcript is an optional system
\* message followed by (user, assistant) pairs, and the transcript a producer
\* serializes into a request is not empty and ends with a user message.
C19_TranscriptAlternates ==
    /\ (pc \in {"read_line", "multiline_read"} => WellFormed(messages))
    /\ (pc = "system_read" => messages = <<>>)
    /\ (body.read =>
           /\ body.messages # <<>>
           /\ body.messages[Len(body.messages)].role = "user")

\* the request of #repeat after one full turn under a system message
C19_Witness ==
    /\ lastCmd = "repeat"
    /\ body.read
    /\ Roles(body.messages) = <<"system", "user">>
    /\ delivered > 0

\* C20: while the producer runs, and until it has been joined, the receiving
\* end of the channel exists, so no send fails: the producer never panics,
\* and the join of the foreground thread never finds a panicked producer.
C20_SendNeverFails ==
    /\ (producer # "none" => receiver)
    /\ producer # "panicked"

\* the producer sent a chunk after the consumer had left the loop on the
\* final delta, and runs on
C20_Witness ==
    /\ pc = "join"
    /\ producer = "running"
    /\ receiver
    /\ FirstFinal(recvd) > 0
    /\ Len(sent) > Len(recvd)
    /\ chan # <<>>

=============================================================================
